---------------------------- MODULE Spec2Model ----------------------------
(***************************************************************************)
(* Model of the QR acquisition pipeline of helix-user-scan: the QRScanner  *)
(* component with the camera negotiation ladder (src/unnamed/part_002).    *)
(*                                                                         *)
(* One startCamera invocation is a process p in Starts; its position is    *)
(* pc[p].  Every `await` of the source is a point where other handlers     *)
(* (clicks, animation-frame callbacks, other promise continuations, the    *)
(* unmount cleanup) may run; the code between two awaits is one action.    *)
(* One handleUpload invocation is a process u in Uploads.                  *)
(*                                                                         *)
(* parseScannedData of the scan page (src/unnamed/part_001, part_000) and  *)
(* humanizeError are functions; SpecPure applies them to inputs drawn from *)
(* RawInputs and Errors.                                                   *)
(***************************************************************************)
EXTENDS Integers, Sequences, FiniteSets, TLC

\* ------------------------------------------------------------------ bounds
MaxStarts == 2      \* startCamera invocations in one behaviour of Spec
MaxUploads == 2     \* handleUpload invocations in one behaviour of SpecUpload
UploadStarts == 1   \* startCamera invocations in one behaviour of SpecUpload
MaxDevices == 3     \* video input devices in a list of SpecSelect
MaxSubmits == 2     \* handleEnterRaffle invocations in one behaviour of SpecPage

\* SpecReentrant allows one invocation more than Spec.
Starts == 1..(MaxStarts + 1)
Uploads == 1..MaxUploads
Submits == 1..MaxSubmits

\* ------------------------------------------------------------- value sets
NoStream == <<0, "none">>          \* streamRef.current = null / srcObject = null
NoChain == 0                       \* rafRef.current = null
Null == "null"                     \* errMsg = null
Undefined == "undefined"           \* list[0]?.deviceId of an empty list

PermissionErrors == {"NotAllowedError", "SecurityError"}
GumErrors == PermissionErrors \cup {"NotReadableError"}
GumResults == {"ok"} \cup GumErrors

PermissionMsg == "Camera permission denied or blocked. Allow camera access in your browser settings and try again."
NoCameraMsg == "No camera found on this device."
InUseMsg == "Camera is in use by another application. Close it and retry."
DefaultMsg == "Unable to start the camera."

\* Device lists enumerateDevices may return after the preflight.
Labels == {"Front Camera", "Back Camera"}
\* The labels enumerateDevices gives in SpecSelect ("" before permission is
\* granted), and those of them that name a back camera.
SelectLabels ==
    {"", "Front Camera", "Back Camera", "REAR CAMERA", "camera2 1, facing front",
     "camera2 0, facing back", "Front TrueDepth Camera"}
BackLabels == {"Back Camera", "REAR CAMERA", "camera2 0, facing back"}
DeviceLists ==
    {<<>>,
     <<[deviceId |-> "d1", label |-> "Front Camera"]>>,
     <<[deviceId |-> "d1", label |-> "Back Camera"], [deviceId |-> "d2", label |-> "Front Camera"]>>}

\* Frames the video element can present to a tick, and what jsQR finds in them.
Texts == {"QR1"}
Frame(ready, w, h, code) == [ready |-> ready, w |-> w, h |-> h, code |-> code]
Frames ==
    {Frame(FALSE, 0, 0, "none"),       \* readyState below HAVE_ENOUGH_DATA
     Frame(TRUE, 0, 1, "none"),        \* videoWidth = 0
     Frame(TRUE, 1, 0, "none"),        \* videoHeight = 0
     Frame(TRUE, 1, 1, "none"),        \* jsQR returns null
     Frame(TRUE, 1, 1, "")}            \* jsQR returns a code with empty data
    \cup {Frame(TRUE, 1, 1, t) : t \in Texts}

VARIABLES
    conditionalVideo,  \* TRUE: <video>/<canvas> are rendered only in the `started` branch (the JSX as written)
    mounted,           \* the component is mounted
    videoRef,          \* videoRef.current (and canvasRef.current) is an element
    videoSrc,          \* video.srcObject of that element
    rafRef,            \* rafRef.current: the chain whose pending callback it identifies, or NoChain
    rafPending,        \* chains (one per decodeLoop() call) with a frame callback pending
    streamRef,         \* streamRef.current
    live,              \* streams with unstopped tracks
    acquired,          \* every stream getUserMedia has returned
    started,           \* React state
    errMsg,            \* React state
    devices,           \* React state
    selectedDeviceId,  \* React state
    pc,                \* position of each startCamera invocation
    reqs,              \* per invocation: the camera requests issued, with their results
    outcome,           \* per invocation: how it ended
    onErrorCalls,      \* per invocation: the errors passed to onError
    stoppedDuring,     \* per invocation: stopCamera ran while one of its requests was in flight
    decoded,           \* per chain: texts jsQR decoded
    onScannedCalls,    \* per chain: texts passed to onScanned
    stopReturned,      \* stopCamera() has returned while streaming, and no start was made since
    tickAfterStop,     \* a tick has executed while stopReturned
    budget,            \* startCamera invocations this behaviour may make
    isDecodingImage,   \* React state
    upc,               \* position of each handleUpload invocation
    objectUrls,        \* object URLs created and not revoked (one per invocation)
    upScanned,         \* per handleUpload invocation: texts passed to onScanned
    upErrors,          \* per handleUpload invocation: the errors passed to onError
    upDecode,          \* per handleUpload invocation: how its decode settled
    upThrew,           \* per handleUpload invocation: its onScanned call threw
    upMsg,             \* per handleUpload invocation: the message it passed to setErrMsg after the decode
    enumerated,        \* per startCamera invocation: the list its enumerateVideoInputs returned
    pinnedId,          \* per startCamera invocation: the deviceId of its pinned request
    parseIn,           \* the argument of parseScannedData
    parseOut,          \* its result
    errIn,             \* the argument of humanizeError
    errOut,            \* its result
    selIn,             \* the device list given to the default device selection
    selOut,            \* the result of findBackCameraId on it
    autoOut,           \* selectedDeviceId after the single-request variant's list() on it
    scannedRaw,        \* React state of the scan page
    parsed,            \* React state of the scan page
    walletAddress,     \* React state of the scan page
    isConnecting,      \* React state of the scan page
    isSubmitting,      \* React state of the scan page
    txHash,            \* React state of the scan page
    pageError,         \* React state of the scan page (`error`)
    sub,               \* per handleEnterRaffle invocation: its position, the `parsed` it closed over, the step that failed
    sent,              \* the contract.enterRaffle calls made
    mined,             \* the invocations whose tx.wait() has returned a receipt
    posts,             \* the POST requests made
    onScannedThrows,   \* the caller's onScanned handler throws when the scanner calls it from a tick
    tickEscaped        \* an exception has propagated out of a tick

vars == <<conditionalVideo, mounted, videoRef, videoSrc, rafRef, rafPending, streamRef,
          live, acquired, started, errMsg, devices, selectedDeviceId, pc, reqs, outcome,
          onErrorCalls, stoppedDuring, decoded, onScannedCalls, stopReturned, tickAfterStop, budget,
          isDecodingImage, upc, objectUrls, upScanned, upErrors, parseIn, parseOut, errIn, errOut,
          selIn, selOut, autoOut, upDecode, upThrew, upMsg, enumerated, pinnedId,
          scannedRaw, parsed, walletAddress, isConnecting, isSubmitting, txHash, pageError,
          sub, sent, mined, posts, onScannedThrows, tickEscaped>>

streamVars == <<videoSrc, rafRef, rafPending, streamRef, live>>
scanVars == <<decoded, onScannedCalls, tickAfterStop, tickEscaped>>
uiVars == <<devices, selectedDeviceId, enumerated, pinnedId>>
uploadVars == <<isDecodingImage, upc, objectUrls, upScanned, upErrors, upDecode, upThrew, upMsg>>
selVars == <<selIn, selOut, autoOut>>
pureVars == <<parseIn, parseOut, errIn, errOut, selVars>>
pageVars == <<scannedRaw, parsed, walletAddress, isConnecting, isSubmitting, txHash, pageError,
              sub, sent, mined, posts>>
\* What no handler of the capture session writes.
envVars == <<conditionalVideo, onScannedThrows, budget, uploadVars, pureVars, pageVars>>

\* ---------------------------------------------------------------- helpers

\* The element refs after React commits a render with the given `started`.
Commit(isMounted, s) ==
    IF ~isMounted THEN FALSE
    ELSE IF conditionalVideo THEN s ELSE TRUE

\* setStarted: a state update of an unmounted component is dropped.
SetStarted(s) == IF mounted THEN s ELSE started

\* Mutants of IsPermissionDenial: SecurityError is forgotten; every error aborts.
M_IsPermissionDenialNoSecurity(name) == name = "NotAllowedError"
M_IsPermissionDenialAny(name) == name # "ok"

\* The test `err?.name === "NotAllowedError" || err?.name === "SecurityError"`.
IsPermissionDenial(name) == name = "NotAllowedError" \/ name = "SecurityError"

\* A thrown value: null, or an object whose name and message are a string or
\* undefined.
Err(name, message) == [isNull |-> FALSE, name |-> name, message |-> message]
NullErr == [isNull |-> TRUE, name |-> Undefined, message |-> Undefined]
ErrNames ==
    {Undefined, "", "NotAllowedError", "SecurityError", "NotFoundError", "NotReadableError",
     "OverconstrainedError", "AbortError", "TypeError"}
ErrMessages == {Undefined, "", "Requested device not found", "Could not start video source"}
Errors == {NullErr} \cup {Err(n, m) : n \in ErrNames, m \in ErrMessages}

\* The rejection of getUserMedia named `name`, a DOMException with a message.
GumError(name) == Err(name, "Could not start video source")

Threw == "threw"                   \* the call ended with an exception

\* `err?.name` and `err?.message`.
NameOf(err) == IF err.isNull THEN Undefined ELSE err.name
MessageOf(err) == IF err.isNull THEN Undefined ELSE err.message

\* `x || fallback` for x a string or undefined.
OrDefault(x, fallback) == IF x = Undefined \/ x = "" THEN fallback ELSE x

\* The mutant of humanizeError: `err.name` in place of `err?.name`.
M_humanizeError(err) ==
    IF err.isNull THEN Threw
    ELSE LET name == OrDefault(err.name, "") IN
         IF name = "NotAllowedError" \/ name = "SecurityError" THEN PermissionMsg
         ELSE IF name = "NotFoundError" THEN NoCameraMsg
         ELSE IF name = "NotReadableError" THEN InUseMsg
         ELSE OrDefault(err.message, DefaultMsg)

humanizeError(err) ==
    LET name == OrDefault(NameOf(err), "") IN
    IF name = "NotAllowedError" \/ name = "SecurityError" THEN PermissionMsg
    ELSE IF name = "NotFoundError" THEN NoCameraMsg
    ELSE IF name = "NotReadableError" THEN InUseMsg
    ELSE OrDefault(MessageOf(err), DefaultMsg)

\* RegExp.test with the `i` flag, for a pattern that is a lower-case word or
\* an alternation of such words: some word occurs in the lower-cased label.
UpperChars == "ABCDEFGHIJKLMNOPQRSTUVWXYZ"
LowerChars == "abcdefghijklmnopqrstuvwxyz"
LowerChar(c) ==
    IF \E i \in 1..Len(UpperChars) : SubSeq(UpperChars, i, i) = c
      THEN LET i == CHOOSE i \in 1..Len(UpperChars) : SubSeq(UpperChars, i, i) = c
           IN  SubSeq(LowerChars, i, i)
      ELSE c
RECURSIVE Lower(_)
Lower(str) ==
    IF str = "" THEN "" ELSE LowerChar(SubSeq(str, 1, 1)) \o Lower(SubSeq(str, 2, Len(str)))
Contains(str, w) == \E i \in 1..(Len(str) - Len(w) + 1) : SubSeq(str, i, i + Len(w) - 1) = w
Test(words, label) == \E w \in words : Contains(Lower(label), w)

\* The predicate of list.find in findBackCameraId.
LabelMatchesBack(label) ==
    \/ Test({"back", "rear", "environment"}, label)
    \/ (Test({"facing back"}, label) /\ ~Test({"front", "true depth", "truedepth"}, label))

RECURSIVE FindFirst(_, _)
FindFirst(list, i) ==
    IF i > Len(list) THEN 0
    ELSE IF LabelMatchesBack(list[i].label) THEN i
    ELSE FindFirst(list, i + 1)

\* The mutant of findBackCameraId: without the last-listed fallback.
M_findBackCameraId(devs) ==
    LET b == FindFirst(devs, 1) IN
    IF b # 0 /\ devs[b].deviceId # "" THEN devs[b].deviceId
    ELSE IF Len(devs) >= 1 THEN devs[1].deviceId
    ELSE Undefined

findBackCameraId(list) ==
    LET b == FindFirst(list, 1) IN
    IF b # 0 /\ list[b].deviceId # "" THEN list[b].deviceId
    ELSE IF Len(list) > 1 THEN list[Len(list)].deviceId
    ELSE IF Len(list) = 1 THEN list[1].deviceId
    ELSE Undefined

Falsy(id) == id = Undefined \/ id = ""

SessionStream(p) == <<p, "session">>
PreflightStream(p) == <<p, "preflight">>

Awaiting == {"await1", "await2", "awaitPreflight", "awaitGeneric", "awaitPinned"}

\* What a stopCamera() call finds: `pend` is the set of pending callbacks and
\* `vref` the value of videoRef.current when it is called.
StopInput(pend, vref) ==
    [rafRef |-> rafRef, rafPending |-> pend, streamRef |-> streamRef, live |-> live,
     videoRef |-> vref, videoSrc |-> videoSrc]

\* The mutant of stopCameraOn: `streamRef.current = null` is forgotten.
M_stopCameraOn(s) ==
    [rafRef |-> NoChain,
     rafPending |-> IF s.rafRef # NoChain THEN s.rafPending \ {s.rafRef} ELSE s.rafPending,
     streamRef |-> s.streamRef,
     live |-> IF s.streamRef # NoStream THEN s.live \ {s.streamRef} ELSE s.live,
     videoRef |-> s.videoRef,
     videoSrc |-> IF s.videoRef THEN NoStream ELSE s.videoSrc,
     cancelCalls |-> IF s.rafRef # NoChain THEN <<s.rafRef>> ELSE <<>>,
     trackStops |-> IF s.streamRef # NoStream THEN <<s.streamRef>> ELSE <<>>]

\* The body of stopCamera() run on s: the refs and resources it leaves, and the
\* cancelAnimationFrame and track.stop() calls it made.
stopCameraOn(s) ==
    [rafRef |-> NoChain,
     rafPending |-> IF s.rafRef # NoChain THEN s.rafPending \ {s.rafRef} ELSE s.rafPending,
     streamRef |-> NoStream,
     live |-> IF s.streamRef # NoStream THEN s.live \ {s.streamRef} ELSE s.live,
     videoRef |-> s.videoRef,
     videoSrc |-> IF s.videoRef THEN NoStream ELSE s.videoSrc,
     cancelCalls |-> IF s.rafRef # NoChain THEN <<s.rafRef>> ELSE <<>>,
     trackStops |-> IF s.streamRef # NoStream THEN <<s.streamRef>> ELSE <<>>]

stopCamera(pend, vref) ==
    LET after == stopCameraOn(StopInput(pend, vref)) IN
    /\ rafPending' = after.rafPending
    /\ rafRef' = after.rafRef
    /\ live' = after.live
    /\ streamRef' = after.streamRef
    /\ videoSrc' = after.videoSrc

\* Bookkeeping of a stopCamera() call: it returned while started was true.
NoteStop == stopReturned' = (stopReturned \/ started)

\* Bookkeeping of an explicit stop or the unmount cleanup: the invocations that
\* have a camera request in flight at that moment.
NoteStoppedDuring == stoppedDuring' = [q \in Starts |-> stoppedDuring[q] \/ pc[q] \in Awaiting]

\* The last request of p with its result filled in.
Resolved(p, r) == [reqs[p] EXCEPT ![Len(reqs[p])].res = r]

\* The mutant of releasePreflight: the preflight stream is left running.
M_releasePreflight(liveSet, s) == liveSet

\* The preflight stream's tracks are stopped as soon as it is obtained.
releasePreflight(liveSet, s) == liveSet \ {s}

\* ------------------------------------------------- scan page: parseScannedData

\* JavaScript values JSON.parse can put in a property; JUndefined is the value of
\* a property the object does not have.
JUndefined == [t |-> "undefined", s |-> "", n |-> 0]
JNull == [t |-> "null", s |-> "", n |-> 0]
JStr(x) == [t |-> "string", s |-> x, n |-> 0]
JNum(k) == [t |-> "number", s |-> "", n |-> k]
JBool(b) == [t |-> "boolean", s |-> "", n |-> IF b THEN 1 ELSE 0]
JObject == [t |-> "object", s |-> "", n |-> 0]             \* a plain object such as {}
JNoToString == [t |-> "object", s |-> "toString", n |-> 0] \* {"toString": 1}

\* The truthiness test of `x ? a : b` and `x && y`.
Truthy(v) ==
    CASE v.t = "string" -> v.s # ""
      [] v.t = "number" -> v.n # 0
      [] v.t = "boolean" -> v.n = 1
      [] v.t = "object" -> TRUE
      [] OTHER -> FALSE

\* String(v): the decimal digits of a number, the words of the other
\* primitives; a TypeError for an object whose toString is not callable.
DigitChars == <<"0", "1", "2", "3", "4", "5", "6", "7", "8", "9">>
RECURSIVE Decimal(_)
Decimal(k) == IF k < 10 THEN DigitChars[k + 1] ELSE Decimal(k \div 10) \o DigitChars[(k % 10) + 1]
StringThrows(v) == v = JNoToString
String(v) ==
    CASE v.t = "string" -> v.s
      [] v.t = "number" -> Decimal(v.n)
      [] v.t = "boolean" -> (IF v.n = 1 THEN "true" ELSE "false")
      [] v.t = "null" -> "null"
      [] v.t = "undefined" -> "undefined"
      [] OTHER -> "[object Object]"

\* The text scanned, by what it is: a JSON text (its value `top`, and the three
\* properties read from it when it is an object), an absolute URL or a relative
\* reference (its query parameters), or any other text.
ParamNames == {"raffleId", "raffle_id", "qrId", "qr_id", "valueWei", "value_wei"}
NoQuery == [k \in ParamNames |-> Null]
Query(r, rs, q, qs, w, ws) ==
    [k \in ParamNames |->
        CASE k = "raffleId" -> r [] k = "raffle_id" -> rs [] k = "qrId" -> q
          [] k = "qr_id" -> qs [] k = "valueWei" -> w [] OTHER -> ws]
JsonText(top, r, q, w) ==
    [form |-> "json", top |-> top, raffleId |-> r, qrId |-> q, valueWei |-> w, query |-> NoQuery]
UrlText(form, query) ==
    [form |-> form, top |-> JUndefined, raffleId |-> JUndefined, qrId |-> JUndefined,
     valueWei |-> JUndefined, query |-> query]
OtherText == UrlText("text", NoQuery)

RaffleIdValues ==
    {JUndefined, JNull, JStr(""), JStr("7"), JNum(0), JNum(42), JBool(FALSE), JBool(TRUE),
     JObject, JNoToString}
QrIdValues == {JUndefined, JStr(""), JStr("q1"), JNum(0), JNoToString}
ValueWeiValues == {JUndefined, JStr("1000"), JNum(0), JNum(1000)}
JsonObjects == {JsonText(JObject, r, q, w) : r \in RaffleIdValues, q \in QrIdValues, w \in ValueWeiValues}
JsonNonObjects ==
    {JsonText(top, JUndefined, JUndefined, JUndefined) :
        top \in {JNull, JNum(0), JNum(42), JStr("7"), JBool(TRUE)}}
Queries ==
    {Query(r, rs, q, qs, w, ws) :
        r \in {Null, "", "7"}, rs \in {Null, "", "8"}, q \in {Null, "", "q1"},
        qs \in {Null, "", "q2"}, w \in {Null, "5"}, ws \in {Null, "6"}}
AbsoluteUrls == {UrlText("url", query) : query \in Queries}
RelativeRefs == {UrlText("relative", Query("7", Null, "q1", Null, "5", Null))}
RawInputs == JsonObjects \cup JsonNonObjects \cup AbsoluteUrls \cup RelativeRefs \cup {OtherText}

\* JSON.parse(raw) and new URL(raw) throw on a text that is not of their form.
JsonParses(raw) == raw.form = "json"
UrlParses(raw) == raw.form = "url"
\* url.searchParams.get(name): null when the query has no such parameter.
Get(raw, name) == raw.query[name]

\* The results of parseScannedData: a record, null, or an exception.
Record(r, q, w) == [kind |-> "record", raffleId |-> r, qrId |-> q, valueWei |-> w]
NoRecord(kind) == [kind |-> kind, raffleId |-> Undefined, qrId |-> Undefined, valueWei |-> Undefined]
NullResult == NoRecord("null")
ThrewResult == NoRecord("threw")
Pending == NoRecord("pending")

\* The mutant of OrElse: the second operand is preferred.
M_OrElse(a, b) == IF b = Null \/ b = "" \/ b = Undefined THEN a ELSE b

\* `a || b` for a and b a string, null or undefined.
OrElse(a, b) == IF a = Null \/ a = "" \/ a = Undefined THEN b ELSE a

\* The mutant of UrlStep: the inner try has no catch.
M_UrlStep(raw) ==
    IF ~UrlParses(raw) THEN ThrewResult
    ELSE LET raffleId == OrElse(Get(raw, "raffleId"), Get(raw, "raffle_id"))
             qrId == OrElse(OrElse(Get(raw, "qrId"), Get(raw, "qr_id")), Undefined)
             valueWei == OrElse(OrElse(Get(raw, "valueWei"), Get(raw, "value_wei")), Undefined)
         IN  IF raffleId # Null /\ raffleId # "" THEN Record(raffleId, qrId, valueWei) ELSE NullResult

\* The catch of the JSON attempt: the URL attempt, and `return null` after it.
UrlStep(raw) ==
    IF ~UrlParses(raw) THEN NullResult
    ELSE LET raffleId == OrElse(Get(raw, "raffleId"), Get(raw, "raffle_id"))
             qrId == OrElse(OrElse(Get(raw, "qrId"), Get(raw, "qr_id")), Undefined)
             valueWei == OrElse(OrElse(Get(raw, "valueWei"), Get(raw, "value_wei")), Undefined)
         IN  IF raffleId # Null /\ raffleId # "" THEN Record(raffleId, qrId, valueWei) ELSE NullResult

\* The mutant of HasRaffleId: the test is `json` alone.
M_HasRaffleId(raw) == Truthy(raw.top)

\* The test `json && json.raffleId`.
HasRaffleId(raw) == Truthy(raw.top) /\ Truthy(raw.raffleId)

\* `x ? String(x) : undefined`.
Optional(v) == IF Truthy(v) THEN String(v) ELSE Undefined

parseScannedData(raw) ==
    IF ~JsonParses(raw) THEN UrlStep(raw)
    ELSE IF HasRaffleId(raw)
      THEN IF StringThrows(raw.raffleId) \/ (Truthy(raw.qrId) /\ StringThrows(raw.qrId))
                \/ (Truthy(raw.valueWei) /\ StringThrows(raw.valueWei))
             THEN UrlStep(raw)
             ELSE Record(String(raw.raffleId), Optional(raw.qrId), Optional(raw.valueWei))
      ELSE NullResult

\* ------------------------------------------------------------------- Init
InitWith(n) ==
    /\ budget = n
    /\ conditionalVideo \in BOOLEAN
    /\ onScannedThrows \in BOOLEAN
    /\ tickEscaped = FALSE
    /\ mounted = TRUE
    /\ started = FALSE
    /\ videoRef = Commit(TRUE, FALSE)
    /\ videoSrc = NoStream
    /\ rafRef = NoChain
    /\ rafPending = {}
    /\ streamRef = NoStream
    /\ live = {}
    /\ acquired = {}
    /\ errMsg = Null
    /\ devices = <<>>
    /\ selectedDeviceId = "auto"
    /\ pc = [p \in Starts |-> "idle"]
    /\ reqs = [p \in Starts |-> <<>>]
    /\ outcome = [p \in Starts |-> "none"]
    /\ onErrorCalls = [p \in Starts |-> <<>>]
    /\ stoppedDuring = [p \in Starts |-> FALSE]
    /\ decoded = [c \in Starts |-> <<>>]
    /\ onScannedCalls = [c \in Starts |-> <<>>]
    /\ stopReturned = FALSE
    /\ tickAfterStop = FALSE
    /\ enumerated = [p \in Starts |-> <<>>]
    /\ pinnedId = [p \in Starts |-> Undefined]

\* ---------------------------------------------------------- startCamera

\* startWithStream(stream) up to `await video.play()`.
startWithStream(p, s) ==
    /\ reqs' = [reqs EXCEPT ![p] = Resolved(p, "ok")]
    /\ acquired' = acquired \cup {s}
    /\ live' = live \cup {s}
    /\ streamRef' = s
    /\ IF ~videoRef
         THEN /\ videoSrc' = videoSrc
              /\ pc' = [pc EXCEPT ![p] = "done"]
              /\ outcome' = [outcome EXCEPT ![p] = "noVideo"]
         ELSE /\ videoSrc' = s
              /\ pc' = [pc EXCEPT ![p] = "awaitPlay"]
              /\ outcome' = outcome
    /\ UNCHANGED <<envVars, mounted, videoRef, rafRef, rafPending, started, errMsg,
                   uiVars, onErrorCalls, stoppedDuring, stopReturned, scanVars>>

\* The mutant of Fail: the catch does not call onError.
M_Fail(p, e) ==
    /\ reqs' = [reqs EXCEPT ![p] = Resolved(p, e)]
    /\ errMsg' = IF mounted THEN humanizeError(GumError(e)) ELSE errMsg
    /\ started' = SetStarted(FALSE)
    /\ stopCamera(rafPending, videoRef)
    /\ NoteStop
    /\ onErrorCalls' = onErrorCalls
    /\ pc' = [pc EXCEPT ![p] = "done"]
    /\ outcome' = [outcome EXCEPT ![p] = "failed"]
    /\ videoRef' = Commit(mounted, started')
    /\ UNCHANGED <<envVars, mounted, acquired, uiVars, stoppedDuring, scanVars>>

\* The catch of startCamera.
Fail(p, e) ==
    /\ reqs' = [reqs EXCEPT ![p] = Resolved(p, e)]
    /\ errMsg' = IF mounted THEN humanizeError(GumError(e)) ELSE errMsg
    /\ started' = SetStarted(FALSE)
    /\ stopCamera(rafPending, videoRef)
    /\ NoteStop
    /\ onErrorCalls' = [onErrorCalls EXCEPT ![p] = Append(@, e)]
    /\ pc' = [pc EXCEPT ![p] = "done"]
    /\ outcome' = [outcome EXCEPT ![p] = "failed"]
    /\ videoRef' = Commit(mounted, started')
    /\ UNCHANGED <<envVars, mounted, acquired, uiVars, stoppedDuring, scanVars>>

\* The mutant of NextRung: the failed rung's request is issued again in place
\* of the next rung's.
M_NextRung(p, e, kind, at) ==
    /\ reqs' = [reqs EXCEPT ![p] = Append(Resolved(p, e), [kind |-> reqs[p][Len(reqs[p])].kind, res |-> "pending"])]
    /\ pc' = [pc EXCEPT ![p] = at]
    /\ UNCHANGED <<envVars, mounted, videoRef, streamVars, acquired, started, errMsg,
                   uiVars, outcome, onErrorCalls, stoppedDuring, stopReturned, scanVars>>

\* A rung failed with a non-permission error: the next request is issued.
NextRung(p, e, kind, at) ==
    /\ reqs' = [reqs EXCEPT ![p] = Append(Resolved(p, e), [kind |-> kind, res |-> "pending"])]
    /\ pc' = [pc EXCEPT ![p] = at]
    /\ UNCHANGED <<envVars, mounted, videoRef, streamVars, acquired, started, errMsg,
                   uiVars, outcome, onErrorCalls, stoppedDuring, stopReturned, scanVars>>

\* Click on "Start Back Camera" (rendered while started is false): startCamera up
\* to its first await.
StartCamera(p) ==
    /\ mounted /\ ~started
    /\ p <= budget
    /\ pc[p] = "idle"
    /\ \A q \in Starts : q < p => pc[q] # "idle"
    /\ errMsg' = Null
    /\ stopCamera(rafPending, videoRef)
    /\ stopReturned' = FALSE
    /\ reqs' = [reqs EXCEPT ![p] = <<[kind |-> "exact", res |-> "pending"]>>]
    /\ pc' = [pc EXCEPT ![p] = "await1"]
    /\ UNCHANGED <<envVars, mounted, videoRef, acquired, started, uiVars, outcome,
                   onErrorCalls, stoppedDuring, scanVars>>

\* Rung 1: facingMode exact environment.
Rung1Resolved(p, r) ==
    /\ pc[p] = "await1"
    /\ IF r = "ok" THEN startWithStream(p, SessionStream(p))
       ELSE IF IsPermissionDenial(r) THEN Fail(p, r)
       ELSE NextRung(p, r, "ideal", "await2")

\* Rung 2: facingMode ideal environment.
Rung2Resolved(p, r) ==
    /\ pc[p] = "await2"
    /\ IF r = "ok" THEN startWithStream(p, SessionStream(p))
       ELSE IF IsPermissionDenial(r) THEN Fail(p, r)
       ELSE NextRung(p, r, "preflight", "awaitPreflight")

\* Rung 3, first half: the preflight getUserMedia({video: true}).
PreflightResolved(p, r) ==
    /\ pc[p] = "awaitPreflight"
    /\ IF r = "ok"
         THEN /\ reqs' = [reqs EXCEPT ![p] = Resolved(p, "ok")]
              /\ acquired' = acquired \cup {PreflightStream(p)}
              /\ live' = releasePreflight(live \cup {PreflightStream(p)}, PreflightStream(p))
              /\ pc' = [pc EXCEPT ![p] = "awaitEnumerate"]
              /\ UNCHANGED <<envVars, mounted, videoRef, videoSrc, rafRef, rafPending,
                             streamRef, started, errMsg, uiVars, outcome, onErrorCalls,
                             stoppedDuring, stopReturned, scanVars>>
         ELSE Fail(p, r)

\* Rung 3, second half: enumerateVideoInputs, findBackCameraId, then the pinned
\* request, or the generic request when no device id was found.
EnumerateResolved(p, list, failed) ==
    /\ pc[p] = "awaitEnumerate"
    /\ failed => list = <<>>
    /\ enumerated' = [enumerated EXCEPT ![p] = list]
    /\ LET backId == findBackCameraId(list) IN
       /\ devices' = IF failed \/ ~mounted THEN devices ELSE list
       /\ pinnedId' = IF Falsy(backId) THEN pinnedId ELSE [pinnedId EXCEPT ![p] = backId]
       /\ IF Falsy(backId)
            THEN /\ selectedDeviceId' = selectedDeviceId
                 /\ reqs' = [reqs EXCEPT ![p] = Append(@, [kind |-> "generic", res |-> "pending"])]
                 /\ pc' = [pc EXCEPT ![p] = "awaitGeneric"]
            ELSE /\ selectedDeviceId' = IF mounted THEN backId ELSE selectedDeviceId
                 /\ reqs' = [reqs EXCEPT ![p] = Append(@, [kind |-> "pinned", res |-> "pending"])]
                 /\ pc' = [pc EXCEPT ![p] = "awaitPinned"]
    /\ UNCHANGED <<envVars, mounted, videoRef, streamVars, acquired, started, errMsg,
                   outcome, onErrorCalls, stoppedDuring, stopReturned, scanVars>>

GenericResolved(p, r) ==
    /\ pc[p] = "awaitGeneric"
    /\ IF r = "ok" THEN startWithStream(p, SessionStream(p)) ELSE Fail(p, r)

PinnedResolved(p, r) ==
    /\ pc[p] = "awaitPinned"
    /\ IF r = "ok" THEN startWithStream(p, SessionStream(p)) ELSE Fail(p, r)

\* decodeLoop(): the first frame callback of a new chain is requested.
decodeLoop(p) ==
    IF videoRef
      THEN /\ rafPending' = rafPending \cup {p}
           /\ rafRef' = p
      ELSE UNCHANGED <<rafPending, rafRef>>

\* startWithStream after `await video.play()` (a rejection of play() is caught).
PlayResolved(p) ==
    /\ pc[p] = "awaitPlay"
    /\ started' = SetStarted(TRUE)
    /\ decodeLoop(p)
    /\ pc' = [pc EXCEPT ![p] = "done"]
    /\ outcome' = [outcome EXCEPT ![p] = IF videoRef /\ mounted THEN "streaming" ELSE "noLoop"]
    /\ videoRef' = Commit(mounted, started')
    /\ UNCHANGED <<envVars, mounted, videoSrc, streamRef, live, acquired, errMsg,
                   uiVars, reqs, onErrorCalls, stoppedDuring, stopReturned, scanVars>>

\* ------------------------------------------------------------ decode loop

\* The mutant of Reschedule: no next frame callback is requested.
M_Reschedule(c, pend) ==
    /\ rafPending' = pend
    /\ rafRef' = rafRef
    /\ UNCHANGED <<videoRef, videoSrc, streamRef, live, started, stopReturned, decoded,
                   onScannedCalls>>

\* `rafRef.current = requestAnimationFrame(tick)` followed by the end of tick.
Reschedule(c, pend) ==
    /\ rafPending' = pend \cup {c}
    /\ rafRef' = c
    /\ UNCHANGED <<videoRef, videoSrc, streamRef, live, started, stopReturned, decoded,
                   onScannedCalls>>

\* The mutant of TickDecoded: the success branch does not return, and falls
\* through to the requestAnimationFrame(tick) at the end of tick.
M_TickDecoded(c, pend, text) ==
    /\ decoded' = [decoded EXCEPT ![c] = Append(@, text)]
    /\ onScannedCalls' = [onScannedCalls EXCEPT ![c] = Append(@, text)]
    /\ started' = SetStarted(FALSE)
    /\ rafPending' = (IF rafRef # NoChain THEN pend \ {rafRef} ELSE pend) \cup {c}
    /\ rafRef' = c
    /\ live' = IF streamRef # NoStream THEN live \ {streamRef} ELSE live
    /\ streamRef' = NoStream
    /\ videoSrc' = IF videoRef THEN NoStream ELSE videoSrc
    /\ NoteStop
    /\ videoRef' = Commit(mounted, started')

\* The branch of tick taken when jsQR returned a code with non-empty data.
TickDecoded(c, pend, text) ==
    /\ decoded' = [decoded EXCEPT ![c] = Append(@, text)]
    /\ onScannedCalls' = [onScannedCalls EXCEPT ![c] = Append(@, text)]
    /\ started' = SetStarted(FALSE)
    /\ stopCamera(pend, videoRef)
    /\ NoteStop
    /\ videoRef' = Commit(mounted, started')

\* The mutant of Propagates: onScanned is called without the try/catch.
M_Propagates(throws) == throws

\* `try { onScanned(code.data) } catch (e) { console.log(...) }`: whether an
\* exception of the handler leaves the statement.
Propagates(throws) == FALSE

\* tick ended by an exception thrown at the onScanned call: nothing after the
\* call has run, and no next frame callback was requested.
TickAborted(c, pend, text) ==
    /\ decoded' = [decoded EXCEPT ![c] = Append(@, text)]
    /\ onScannedCalls' = [onScannedCalls EXCEPT ![c] = Append(@, text)]
    /\ rafPending' = pend
    /\ UNCHANGED <<rafRef, videoRef, videoSrc, streamRef, live, started, stopReturned>>

\* One run of `tick`, the frame callback of chain c, on frame f.  The video
\* element has frame data only while a stream is bound to it.
Tick(c, f) ==
    /\ c \in rafPending
    /\ f.ready => videoSrc # NoStream
    /\ tickAfterStop' = (tickAfterStop \/ stopReturned)
    /\ LET pend == rafPending \ {c} IN
       IF ~f.ready \/ f.w = 0 \/ f.h = 0 THEN Reschedule(c, pend) /\ tickEscaped' = tickEscaped
       ELSE IF f.code # "none" /\ f.code # ""
         THEN IF Propagates(onScannedThrows)
                THEN TickAborted(c, pend, f.code) /\ tickEscaped' = TRUE
                ELSE TickDecoded(c, pend, f.code) /\ tickEscaped' = tickEscaped
       ELSE Reschedule(c, pend) /\ tickEscaped' = tickEscaped
    /\ UNCHANGED <<envVars, mounted, acquired, errMsg, uiVars, pc, reqs, outcome,
                   onErrorCalls, stoppedDuring>>

\* ------------------------------------------------------- stop and unmount

\* Click on "Stop camera" (rendered while started is true).
StopClick ==
    /\ mounted /\ started
    /\ started' = FALSE
    /\ stopCamera(rafPending, videoRef)
    /\ NoteStop
    /\ NoteStoppedDuring
    /\ videoRef' = Commit(mounted, started')
    /\ UNCHANGED <<envVars, mounted, acquired, errMsg, uiVars, pc, reqs, outcome,
                   onErrorCalls, scanVars>>

\* The component unmounts: the refs are detached, then the effect cleanup runs
\* stopCamera().
Unmount ==
    /\ mounted
    /\ mounted' = FALSE
    /\ videoRef' = FALSE
    /\ stopCamera(rafPending, FALSE)
    /\ NoteStop
    /\ NoteStoppedDuring
    /\ UNCHANGED <<envVars, acquired, started, errMsg, uiVars, pc, reqs, outcome,
                   onErrorCalls, scanVars>>

\* ------------------------------------------------------------------- Next
Next ==
    \/ \E p \in Starts : StartCamera(p)
    \/ \E p \in Starts, r \in GumResults : Rung1Resolved(p, r)
    \/ \E p \in Starts, r \in GumResults : Rung2Resolved(p, r)
    \/ \E p \in Starts, r \in GumResults : PreflightResolved(p, r)
    \/ \E p \in Starts, list \in DeviceLists, failed \in BOOLEAN : EnumerateResolved(p, list, failed)
    \/ \E p \in Starts, r \in GumResults : GenericResolved(p, r)
    \/ \E p \in Starts, r \in GumResults : PinnedResolved(p, r)
    \/ \E p \in Starts : PlayResolved(p)
    \/ \E c \in Starts, f \in Frames : Tick(c, f)
    \/ StopClick
    \/ Unmount

\* No upload is made and no function application is observed.
UploadIdle ==
    /\ isDecodingImage = FALSE
    /\ upc = [u \in Uploads |-> "idle"]
    /\ objectUrls = {}
    /\ upScanned = [u \in Uploads |-> <<>>]
    /\ upErrors = [u \in Uploads |-> <<>>]
    /\ upDecode = [u \in Uploads |-> [kind |-> "none", text |-> "", err |-> NullErr]]
    /\ upThrew = [u \in Uploads |-> FALSE]
    /\ upMsg = [u \in Uploads |-> Null]
SelectIdle ==
    /\ selIn = <<>>
    /\ selOut = "pending"
    /\ autoOut = "pending"
\* The scan page as first rendered.
NotSubmitted == [pc |-> "idle", rec |-> NullResult, failed |-> "none"]
PageIdle ==
    /\ scannedRaw = Null
    /\ parsed = NullResult
    /\ walletAddress = Null
    /\ isConnecting = FALSE
    /\ isSubmitting = FALSE
    /\ txHash = Null
    /\ pageError = Null
    /\ sub = [s \in Submits |-> NotSubmitted]
    /\ sent = <<>>
    /\ mined = {}
    /\ posts = <<>>
PureIdle ==
    /\ parseIn = OtherText
    /\ parseOut = Pending
    /\ errIn = NullErr
    /\ errOut = "pending"
    /\ SelectIdle

Init == InitWith(MaxStarts) /\ UploadIdle /\ PureIdle /\ PageIdle

Spec == Init /\ [][Next]_vars

\* The same component with one more startCamera invocation, in a host that keeps
\* the <video> and <canvas> elements mounted (the decode loop runs only there).
InitReentrant == InitWith(MaxStarts + 1) /\ ~conditionalVideo /\ ~onScannedThrows /\ UploadIdle /\ PureIdle /\ PageIdle

\* The device lists given there: no camera, or a back and a front camera.
ReentrantLists == {l \in DeviceLists : Len(l) # 1}

\* Its behaviours are those of the component while it stays mounted.
NextReentrant ==
    \/ \E p \in Starts : StartCamera(p)
    \/ \E p \in Starts, r \in GumResults : Rung1Resolved(p, r)
    \/ \E p \in Starts, r \in GumResults : Rung2Resolved(p, r)
    \/ \E p \in Starts, r \in GumResults : PreflightResolved(p, r)
    \/ \E p \in Starts, list \in ReentrantLists, failed \in BOOLEAN : EnumerateResolved(p, list, failed)
    \/ \E p \in Starts, r \in GumResults : GenericResolved(p, r)
    \/ \E p \in Starts, r \in GumResults : PinnedResolved(p, r)
    \/ \E p \in Starts : PlayResolved(p)
    \/ \E c \in Starts, f \in Frames : Tick(c, f)
    \/ StopClick

SpecReentrant == InitReentrant /\ [][NextReentrant]_vars

\* ------------------------------------------------------------ handleUpload

NoQrMsg == "No QR code detected in the image."
UploadFailMsg == "Failed to decode QR from image."

\* What `await reader.decodeFromImageUrl(url)` does: it resolves with a result
\* (text "" stands for a null result or an empty getText()), or rejects.
Decoded(text) == [kind |-> "result", text |-> text, err |-> NullErr]
Rejected(err) == [kind |-> "throws", text |-> "", err |-> err]
DecodeOutcomes ==
    {Decoded(t) : t \in Texts \cup {""}}
    \cup {Rejected(Err("NotFoundException", "No MultiFormat Readers were able to detect the code.")),
          Rejected(Err("Error", ""))}
\* What the caller's onScanned handler throws, when it throws.
HandlerError == Err("Error", "onScanned failed")

\* Everything of the capture session but errMsg.
sessionVars == <<mounted, videoRef, streamVars, acquired, started, uiVars, pc, reqs, outcome,
                 onErrorCalls, stoppedDuring, stopReturned, scanVars>>

\* The mutant of UploadStart: the upload stops the camera first, as startCamera
\* does.
M_UploadStart(u) ==
    /\ mounted
    /\ upc[u] = "idle"
    /\ \A v \in Uploads : v < u => upc[v] # "idle"
    /\ isDecodingImage' = TRUE
    /\ errMsg' = Null
    /\ objectUrls' = objectUrls \cup {u}
    /\ upc' = [upc EXCEPT ![u] = "decoding"]
    /\ stopCamera(rafPending, videoRef)
    /\ UNCHANGED <<conditionalVideo, onScannedThrows, budget, pageVars, mounted, videoRef, acquired, started, uiVars, pc,
                   reqs, outcome, onErrorCalls, stoppedDuring, stopReturned, scanVars,
                   upScanned, upErrors, upDecode, upThrew, upMsg, pureVars>>

\* A file is chosen in the "Upload QR image" input (rendered in both branches):
\* handleUpload up to `await reader.decodeFromImageUrl(url)`.
UploadStart(u) ==
    /\ mounted
    /\ upc[u] = "idle"
    /\ \A v \in Uploads : v < u => upc[v] # "idle"
    /\ isDecodingImage' = TRUE
    /\ errMsg' = Null
    /\ objectUrls' = objectUrls \cup {u}
    /\ upc' = [upc EXCEPT ![u] = "decoding"]
    /\ UNCHANGED <<conditionalVideo, onScannedThrows, budget, pageVars, sessionVars, upScanned, upErrors, upDecode, upThrew,
                   upMsg, pureVars>>

\* URL.revokeObjectURL(url) is the statement after the await: it runs when the
\* decode resolved, and is skipped when it rejected.
RevokeOnSettle(urls, u, r) == IF r.kind = "result" THEN urls \ {u} ELSE urls

\* handleUpload from the settling of the decode to its end.
UploadResolved(u, r, handlerThrows) ==
    /\ upc[u] = "decoding"
    /\ handlerThrows => (r.kind = "result" /\ r.text # "")
    /\ LET caught == r.kind = "throws" \/ handlerThrows
           e == IF r.kind = "throws" THEN r.err ELSE HandlerError
       IN  /\ objectUrls' = RevokeOnSettle(objectUrls, u, r)
           /\ upScanned' = IF r.kind = "result" /\ r.text # ""
                              THEN [upScanned EXCEPT ![u] = Append(@, r.text)]
                              ELSE upScanned
           /\ upMsg' = [upMsg EXCEPT ![u] =
                            IF caught THEN OrDefault(MessageOf(e), UploadFailMsg)
                            ELSE IF r.text = "" THEN NoQrMsg
                            ELSE Null]
           /\ errMsg' = IF ~mounted \/ upMsg'[u] = Null THEN errMsg ELSE upMsg'[u]
           /\ upErrors' = IF caught THEN [upErrors EXCEPT ![u] = Append(@, e)] ELSE upErrors
    /\ isDecodingImage' = IF mounted THEN FALSE ELSE isDecodingImage
    /\ upc' = [upc EXCEPT ![u] = "done"]
    /\ upDecode' = [upDecode EXCEPT ![u] = r]
    /\ upThrew' = [upThrew EXCEPT ![u] = handlerThrows]
    /\ UNCHANGED <<conditionalVideo, onScannedThrows, budget, pageVars, sessionVars, pureVars>>

\* The component with its still-image path: one startCamera invocation and
\* MaxUploads uploads, in any interleaving.
InitUpload == InitWith(UploadStarts) /\ UploadIdle /\ PureIdle /\ PageIdle

NextUpload ==
    \/ Next
    \/ \E u \in Uploads : UploadStart(u)
    \/ \E u \in Uploads, r \in DecodeOutcomes, handlerThrows \in BOOLEAN : UploadResolved(u, r, handlerThrows)

SpecUpload == InitUpload /\ [][NextUpload]_vars

\* ---------------------------------------------------------- the functions

ApplyParse ==
    /\ parseOut = Pending
    /\ parseOut' = parseScannedData(parseIn)
    /\ UNCHANGED <<conditionalVideo, onScannedThrows, budget, pageVars, sessionVars, errMsg, uploadVars, parseIn, errIn, errOut, selVars>>

ApplyHumanize ==
    /\ errOut = "pending"
    /\ errOut' = humanizeError(errIn)
    /\ UNCHANGED <<conditionalVideo, onScannedThrows, budget, pageVars, sessionVars, errMsg, uploadVars, parseIn, parseOut, errIn, selVars>>

InitPure ==
    /\ InitWith(0) /\ conditionalVideo /\ ~onScannedThrows
    /\ UploadIdle
    /\ parseIn \in RawInputs
    /\ parseOut = Pending
    /\ errIn \in Errors
    /\ errOut = "pending"
    /\ SelectIdle
    /\ PageIdle

NextPure == ApplyParse \/ ApplyHumanize

SpecPure == InitPure /\ [][NextPure]_vars

\* ------------------------------------------------ default device selection
\* (SpecSingle, the single-request variant, is defined after list below.)

\* The device lists enumerateDevices can give: the i-th device has the i-th id;
\* before permission is granted every label and every id is withheld.
DeviceIds == <<"d1", "d2", "d3", "d4", "d5">>
Device(i, label) == [deviceId |-> IF label = "" THEN "" ELSE DeviceIds[i], label |-> label]
SelectLists ==
    UNION {{[i \in 1..n |-> Device(i, labels[i])] :
               labels \in [1..n -> SelectLabels \ {""}] \cup {[i \in 1..n |-> ""]}} : n \in 0..MaxDevices}

\* The predicate of vids.find in list() of the single-request variant.
singleFindPredicate(label) ==
    \/ Test({"back", "rear", "environment"}, label)
    \/ Test({"facing back"}, label)
    \/ ~Test({"truedepth"}, label)

RECURSIVE singleFind(_, _)
singleFind(vids, i) ==
    IF i > Len(vids) THEN 0
    ELSE IF singleFindPredicate(vids[i].label) THEN i
    ELSE singleFind(vids, i + 1)

\* list() of the single-request variant: the value of selectedDeviceId after it.
list(vids, selected) ==
    LET b == singleFind(vids, 1) IN
    IF selected = "auto" /\ b # 0 /\ vids[b].deviceId # "" THEN vids[b].deviceId ELSE selected

\* ------------------- the single-request variant (src/components/qr-scanner.tsx)
\* Its stopCamera, decodeLoop, catch, stop button and unmount cleanup are those of
\* the ladder variant; its startCamera makes one request and does not call
\* stopCamera first.

\* The device list effect, which runs after the mount and after each change of
\* selectedDeviceId: list() with enumerateDevices resolving to vids.
DeviceListEffect(vids) ==
    /\ mounted
    /\ devices' = vids
    /\ selectedDeviceId' = list(vids, selectedDeviceId)
    /\ UNCHANGED <<enumerated, pinnedId>>
    /\ UNCHANGED <<envVars, mounted, videoRef, streamVars, acquired, started, errMsg, pc, reqs,
                   outcome, onErrorCalls, stoppedDuring, stopReturned, scanVars>>

\* Click on "Start Camera": startCamera up to `await getUserMedia(constraints)`.
SingleStartCamera(p) ==
    /\ mounted /\ ~started
    /\ p <= budget
    /\ pc[p] = "idle"
    /\ \A q \in Starts : q < p => pc[q] # "idle"
    /\ errMsg' = Null
    /\ stopReturned' = FALSE
    /\ reqs' = [reqs EXCEPT ![p] =
                   <<[kind |-> IF selectedDeviceId # "auto" THEN "pinned" ELSE "ideal", res |-> "pending"]>>]
    /\ pc' = [pc EXCEPT ![p] = "awaitSingle"]
    /\ UNCHANGED <<envVars, mounted, videoRef, streamVars, acquired, started, uiVars, outcome,
                   onErrorCalls, stoppedDuring, scanVars>>

\* The request settles: the body of the try up to `await video.play()`, or the
\* catch.
SingleResolved(p, r) ==
    /\ pc[p] = "awaitSingle"
    /\ IF r = "ok" THEN startWithStream(p, SessionStream(p)) ELSE Fail(p, r)

InitSingle == InitWith(MaxStarts) /\ UploadIdle /\ PureIdle /\ PageIdle

NextSingle ==
    \/ \E vids \in DeviceLists : DeviceListEffect(vids)
    \/ \E p \in Starts : SingleStartCamera(p)
    \/ \E p \in Starts, r \in GumResults : SingleResolved(p, r)
    \/ \E p \in Starts : PlayResolved(p)
    \/ \E c \in Starts, f \in Frames : Tick(c, f)
    \/ StopClick
    \/ Unmount

SpecSingle == InitSingle /\ [][NextSingle]_vars

\* --------------------------------------------- the selection functions applied

ApplySelect ==
    /\ selOut = "pending"
    /\ selOut' = findBackCameraId(selIn)
    /\ UNCHANGED <<conditionalVideo, onScannedThrows, budget, pageVars, sessionVars, errMsg, uploadVars, parseIn, parseOut,
                   errIn, errOut, selIn, autoOut>>

ApplyList ==
    /\ autoOut = "pending"
    /\ autoOut' = list(selIn, "auto")
    /\ UNCHANGED <<conditionalVideo, onScannedThrows, budget, pageVars, sessionVars, errMsg, uploadVars, parseIn, parseOut,
                   errIn, errOut, selIn, selOut>>

InitSelect ==
    /\ InitWith(0) /\ conditionalVideo /\ ~onScannedThrows
    /\ UploadIdle
    /\ parseIn = OtherText /\ parseOut = Pending /\ errIn = NullErr /\ errOut = "pending"
    /\ selIn \in SelectLists
    /\ selOut = "pending"
    /\ autoOut = "pending"
    /\ PageIdle

NextSelect == ApplySelect \/ ApplyList

SpecSelect == InitSelect /\ [][NextSelect]_vars

\* ------------------------------------------------------------ the scan page
\* (ScanPage: onScan, handleConnect, handleEnterRaffle.)

\* The codes scanned on the page: two JSON records, one of them without qrId
\* and valueWei, a URL with snake-case parameters, and a text that is no code.
PageScans ==
    {JsonText(JObject, JStr("7"), JStr("q1"), JStr("1000")),
     JsonText(JObject, JNum(42), JUndefined, JUndefined),
     UrlText("url", Query(Null, "8", Null, "q2", Null, Null)),
     OtherText}

UserAddress == "0xuser"
ReceiptHash(s) == "0xhash" \o Decimal(s)
\* e.message of the rejections of the wallet, the chain and the backend.
RejectMessages == {"", "user rejected"}
SubmitFailMsg == "Failed to submit transaction"
ConnectFailMsg == "Failed to connect wallet"
BackendMsg(t) == "Backend error: " \o t
\* res.text() || res.status of a response that is not ok.
BackendTexts == {"500", "raffle closed"}

\* The mutant of Submitted: the record is read from the page state when used.
M_Submitted(s) == parsed

\* `parsed` inside handleEnterRaffle: the value the callback closed over.
Submitted(s) == sub[s].rec

\* The path and the body of the POST request.
PostRequest(s, rec, hash) ==
    [sub |-> s,
     path |-> "/api/raffle/" \o rec.raffleId \o "/enter",
     qrId |-> IF Falsy(rec.qrId) THEN Null ELSE rec.qrId,
     txHash |-> hash,
     userAddress |-> UserAddress]

onScan(text) ==
    /\ scannedRaw' = text
    /\ LET p == parseScannedData(text)
       IN  IF p.kind = "threw"
             THEN UNCHANGED <<parsed, txHash, pageError>>
             ELSE /\ parsed' = p
                  /\ txHash' = Null
                  /\ pageError' = Null
    /\ UNCHANGED <<walletAddress, isConnecting, isSubmitting, sub, sent, mined, posts>>
    /\ UNCHANGED <<conditionalVideo, onScannedThrows, budget, uploadVars, pureVars, sessionVars, errMsg>>

canSubmit == parsed.kind = "record" /\ ~Falsy(parsed.raffleId) /\ walletAddress # Null

\* handleConnect up to its first await.
ConnectClick ==
    /\ ~isConnecting
    /\ isConnecting' = TRUE
    /\ pageError' = Null
    /\ UNCHANGED <<scannedRaw, parsed, walletAddress, isSubmitting, txHash, sub, sent, mined, posts>>
    /\ UNCHANGED <<conditionalVideo, onScannedThrows, budget, uploadVars, pureVars, sessionVars, errMsg>>

\* connectWalletAndEnsureChain and getUserAddress settle.
ConnectResolved(ok, msg) ==
    /\ isConnecting
    /\ isConnecting' = FALSE
    /\ IF ok
         THEN walletAddress' = UserAddress /\ UNCHANGED pageError
         ELSE pageError' = OrDefault(msg, ConnectFailMsg) /\ UNCHANGED walletAddress
    /\ UNCHANGED <<scannedRaw, parsed, isSubmitting, txHash, sub, sent, mined, posts>>
    /\ UNCHANGED <<conditionalVideo, onScannedThrows, budget, uploadVars, pureVars, sessionVars, errMsg>>

\* The rest of the page and the scanner are left alone by handleEnterRaffle.
SubmitFrame ==
    /\ UNCHANGED <<scannedRaw, parsed, walletAddress, isConnecting>>
    /\ UNCHANGED <<conditionalVideo, onScannedThrows, budget, uploadVars, pureVars, sessionVars, errMsg>>

\* catch and finally of handleEnterRaffle, for a rejection at `step`.
SubmitFailed(s, step, msg) ==
    /\ pageError' = OrDefault(msg, SubmitFailMsg)
    /\ isSubmitting' = FALSE
    /\ sub' = [sub EXCEPT ![s].pc = "done", ![s].failed = step]

\* The "Enter Raffle" button: handleEnterRaffle up to provider.getSigner().
EnterClick(s) ==
    /\ canSubmit /\ ~isSubmitting
    /\ sub[s].pc = "idle"
    /\ \A t \in Submits : t < s => sub[t].pc # "idle"
    /\ isSubmitting' = TRUE
    /\ pageError' = Null
    /\ txHash' = Null
    /\ sub' = [sub EXCEPT ![s] = [pc |-> "signer", rec |-> parsed, failed |-> "none"]]
    /\ UNCHANGED <<sent, mined, posts>>
    /\ SubmitFrame

\* getSigner settles; on success contract.enterRaffle is called.
SignerResolved(s, ok, msg) ==
    /\ sub[s].pc = "signer"
    /\ IF ok
         THEN /\ sent' = Append(sent, [sub |-> s, raffleId |-> Submitted(s).raffleId,
                                       value |-> Submitted(s).valueWei])
              /\ sub' = [sub EXCEPT ![s].pc = "sending"]
              /\ UNCHANGED <<pageError, isSubmitting>>
         ELSE SubmitFailed(s, "signer", msg) /\ UNCHANGED sent
    /\ UNCHANGED <<txHash, mined, posts>>
    /\ SubmitFrame

\* contract.enterRaffle settles; on success tx.wait() is called.
SendResolved(s, ok, msg) ==
    /\ sub[s].pc = "sending"
    /\ IF ok
         THEN sub' = [sub EXCEPT ![s].pc = "mining"] /\ UNCHANGED <<pageError, isSubmitting>>
         ELSE SubmitFailed(s, "send", msg)
    /\ UNCHANGED <<txHash, sent, mined, posts>>
    /\ SubmitFrame

\* tx.wait() settles; on success setTxHash(receipt.hash), then
\* signer.getAddress() is called for the body of the request.
MineResolved(s, ok, msg) ==
    /\ sub[s].pc = "mining"
    /\ IF ok
         THEN /\ mined' = mined \cup {s}
              /\ txHash' = ReceiptHash(s)
              /\ sub' = [sub EXCEPT ![s].pc = "address"]
              /\ UNCHANGED <<pageError, isSubmitting>>
         ELSE SubmitFailed(s, "mine", msg) /\ UNCHANGED <<mined, txHash>>
    /\ UNCHANGED <<sent, posts>>
    /\ SubmitFrame

\* signer.getAddress() settles; on success fetch is called.
AddressResolved(s, ok, msg) ==
    /\ sub[s].pc = "address"
    /\ IF ok
         THEN /\ posts' = Append(posts, PostRequest(s, Submitted(s), ReceiptHash(s)))
              /\ sub' = [sub EXCEPT ![s].pc = "posting"]
              /\ UNCHANGED <<pageError, isSubmitting>>
         ELSE SubmitFailed(s, "address", msg) /\ UNCHANGED posts
    /\ UNCHANGED <<txHash, sent, mined>>
    /\ SubmitFrame

\* fetch settles: a response that is ok, one that is not (its text is read and
\* thrown), or a rejection.
PostResolved(s, r, msg) ==
    /\ sub[s].pc = "posting"
    /\ CASE r = "ok" -> /\ sub' = [sub EXCEPT ![s].pc = "done"]
                        /\ isSubmitting' = FALSE
                        /\ UNCHANGED pageError
         [] r = "notok" -> SubmitFailed(s, "backend", BackendMsg(msg))
         [] OTHER -> SubmitFailed(s, "fetch", msg)
    /\ UNCHANGED <<txHash, sent, mined, posts>>
    /\ SubmitFrame

InitPage == InitWith(0) /\ conditionalVideo /\ ~onScannedThrows /\ UploadIdle /\ PureIdle /\ PageIdle

NextPage ==
    \/ \E text \in PageScans : onScan(text)
    \/ ConnectClick
    \/ \E ok \in BOOLEAN, msg \in RejectMessages : ConnectResolved(ok, msg)
    \/ \E s \in Submits : EnterClick(s)
    \/ \E s \in Submits, ok \in BOOLEAN, msg \in RejectMessages : SignerResolved(s, ok, msg)
    \/ \E s \in Submits, ok \in BOOLEAN, msg \in RejectMessages : SendResolved(s, ok, msg)
    \/ \E s \in Submits, ok \in BOOLEAN, msg \in RejectMessages : MineResolved(s, ok, msg)
    \/ \E s \in Submits, ok \in BOOLEAN, msg \in RejectMessages : AddressResolved(s, ok, msg)
    \/ \E s \in Submits : PostResolved(s, "ok", "")
    \/ \E s \in Submits, msg \in BackendTexts : PostResolved(s, "notok", msg)
    \/ \E s \in Submits, msg \in RejectMessages : PostResolved(s, "rejected", msg)

SpecPage == InitPage /\ [][NextPage]_vars

TypeOK ==
    /\ rafRef \in {NoChain} \cup Starts
    /\ rafPending \subseteq Starts
    /\ rafRef # NoChain => rafRef \in rafPending
    /\ live \subseteq acquired
    /\ started \in BOOLEAN

\* ----------------------------------------------------------------- claims

Quiescent == \A p \in Starts : pc[p] \in {"idle", "done"}
Finishes(p) == pc[p] # "done" /\ pc'[p] = "done"
NonPermission(r) == r \in GumErrors \ PermissionErrors

\* C1: once a tick of a decode loop has decoded a frame, onScanned has been called
\* exactly once by that loop, with the decoded text, and the loop has no frame
\* callback pending, so that it never runs a tick again.
C1_SingleShot ==
    \A c \in Starts :
        decoded[c] # <<>> =>
            /\ Len(decoded[c]) = 1
            /\ onScannedCalls[c] = decoded[c]
            /\ c \notin rafPending

C1_Witness == \E c \in Starts : onScannedCalls[c] = <<"QR1">> /\ ~started /\ streamRef = NoStream

\* C2: in the component as rendered, a startCamera whose camera request yielded
\* the session's stream ends with started true, the stream bound to the video
\* element and a frame callback of its decode loop pending.
C2_StartEndsStreaming ==
    [][\A p \in Starts :
          (conditionalVideo /\ mounted /\ Finishes(p) /\ SessionStream(p) \in acquired')
              => (started' /\ videoSrc' = SessionStream(p) /\ p \in rafPending')]_vars

\* C3: every stream acquired is the one held in streamRef or has its tracks
\* stopped, whatever the interleaving of startCamera invocations.
C3_OneLiveStream == \A s \in live : s = streamRef

C5_StopWhileNegotiating ==
    \A p \in Starts :
        (stoppedDuring[p] /\ pc[p] = "done")
            => (SessionStream(p) \notin live /\ outcome[p] # "streaming")

\* C6: when no start is in flight, an unstopped stream held in streamRef comes
\* with a pending frame callback in rafRef and started = true.
C6_StreamWithLoop ==
    Quiescent =>
        ((streamRef # NoStream /\ streamRef \in live) => (rafRef # NoChain /\ started))

C8_PermissionAborts ==
    [][\A p \in Starts : \A i \in 1..Len(reqs'[p]) :
          reqs'[p][i].res \in PermissionErrors
              => /\ i = Len(reqs'[p])
                 /\ pc'[p] = "done"
                 /\ outcome'[p] = "failed"
                 /\ onErrorCalls'[p] = <<reqs'[p][i].res>>
                 /\ (Finishes(p) /\ mounted) => errMsg' = PermissionMsg]_vars

C8_Witness ==
    \E p \in Starts :
        /\ Len(reqs[p]) = 4
        /\ reqs[p][4].kind = "pinned"
        /\ reqs[p][4].res = "SecurityError"
        /\ errMsg = PermissionMsg

\* C9: a non-permission failure of rung 1 is followed by the rung 2 request, and
\* a non-permission failure of rung 2 by the first request of rung 3.
C9_FallThrough ==
    \A p \in Starts :
        /\ (Len(reqs[p]) >= 1 /\ NonPermission(reqs[p][1].res))
              => (Len(reqs[p]) >= 2 /\ reqs[p][2].kind = "ideal")
        /\ (Len(reqs[p]) >= 2 /\ NonPermission(reqs[p][2].res))
              => (Len(reqs[p]) >= 3 /\ reqs[p][3].kind = "preflight")

C9_Witness ==
    \E p \in Starts :
        /\ Len(reqs[p]) >= 3
        /\ reqs[p][1].res = "NotReadableError"
        /\ reqs[p][2].res = "NotReadableError"

\* C10: a non-permission failure of a rung 3 request (the preflight or the pinned
\* request) is followed by the generic request of rung 4 before the start fails.
C10_Rung3FallsToRung4 ==
    \A p \in Starts : \A i \in 1..Len(reqs[p]) :
        (pc[p] = "done" /\ reqs[p][i].kind \in {"preflight", "pinned"}
            /\ NonPermission(reqs[p][i].res))
            => \E j \in (i + 1)..Len(reqs[p]) : reqs[p][j].kind = "generic"

\* The order of the camera requests of one startCamera.
LadderKinds == <<"exact", "ideal", "preflight">>
LastKinds == {"pinned", "generic"}
InLadderOrder(log) ==
    /\ Len(log) <= 4
    /\ \A i \in 1..Len(log) :
          IF i <= 3 THEN log[i].kind = LadderKinds[i] ELSE log[i].kind \in LastKinds
YieldedSession(p) == SessionStream(p) \in acquired
NoRequestAfterSession(p) ==
    YieldedSession(p) =>
        /\ reqs[p][Len(reqs[p])].res = "ok"
        /\ reqs[p][Len(reqs[p])].kind # "preflight"
        /\ \A i \in 1..(Len(reqs[p]) - 1) : reqs[p][i].kind # "preflight" => reqs[p][i].res # "ok"

StopFields == {"rafRef", "rafPending", "streamRef", "live", "videoRef", "videoSrc"}
SameStopState(a, b) == \A f \in StopFields : a[f] = b[f]
NothingToStop(s) == s.rafRef = NoChain /\ s.streamRef = NoStream

\* C12: stopCamera called when there is no stream and no frame callback changes
\* nothing and makes no cancel or track-stop call; a second stopCamera right
\* after a first leaves the state of the first and makes no cancel or track-stop
\* call, so that tracks are stopped once and the callback is cancelled once.
C12_StopIdempotent ==
    LET s0 == StopInput(rafPending, videoRef)
        s1 == stopCameraOn(s0)
        s2 == stopCameraOn(s1)
    IN  /\ NothingToStop(s0) =>
              (SameStopState(s1, s0) /\ s1.cancelCalls = <<>> /\ s1.trackStops = <<>>)
        /\ SameStopState(s2, s1)
        /\ s2.cancelCalls = <<>>
        /\ s2.trackStops = <<>>
        /\ Len(s1.cancelCalls) <= 1
        /\ Len(s1.trackStops) <= 1

\* A streaming session: the first stopCamera has a stream and a callback to release.
C12_Witness ==
    /\ streamRef # NoStream /\ streamRef \in live
    /\ rafRef # NoChain /\ rafRef \in rafPending
    /\ videoRef /\ videoSrc = streamRef

\* C13: once every upload made has completed, every object URL created has been
\* revoked.
C13_UrlsRevoked == (\A u \in Uploads : upc[u] # "decoding") => objectUrls = {}

\* C14: parseScannedData returns a record or null and never throws, and returns
\* null for a text that is neither JSON nor an absolute URL.
C14_ParseTotal ==
    parseOut # Pending =>
        /\ parseOut.kind \in {"record", "null"}
        /\ (~JsonParses(parseIn) /\ ~UrlParses(parseIn)) => parseOut = NullResult

C14_Witness == parseIn = OtherText /\ parseOut = NullResult

\* C15: for a JSON object with a raffleId property, whatever its value (a string,
\* the empty one included, a number, 0 included, or a boolean), parseScannedData
\* returns a record whose raffleId is that value as text.
C15_RaffleIdAsText ==
    (parseOut # Pending /\ parseIn \in JsonObjects
        /\ parseIn.raffleId.t \in {"string", "number", "boolean"})
        => (parseOut.kind = "record" /\ parseOut.raffleId = String(parseIn.raffleId))

\* C16: in the record made from a JSON object, qrId and valueWei are the text of
\* the object's property when the object has it, and absent when it has not.
C16_OptionalFields ==
    (parseOut.kind = "record" /\ parseIn \in JsonObjects)
        => /\ parseOut.qrId = IF parseIn.qrId = JUndefined THEN Undefined ELSE String(parseIn.qrId)
           /\ parseOut.valueWei =
                 IF parseIn.valueWei = JUndefined THEN Undefined ELSE String(parseIn.valueWei)

\* Whether the query has the parameter whose value is v; `emptyCounts` says
\* whether a parameter with an empty value counts.
Has(v, emptyCounts) == v # Null /\ (emptyCounts \/ v # "")
\* The value the query gives a field: the camelCase parameter's, else the
\* snake_case one's, else none.
FirstOf(raw, camel, snake, emptyCounts) ==
    IF Has(Get(raw, camel), emptyCounts) THEN Get(raw, camel)
    ELSE IF Has(Get(raw, snake), emptyCounts) THEN Get(raw, snake)
    ELSE Undefined
ByQuery(raw, emptyCounts) ==
    IF FirstOf(raw, "raffleId", "raffle_id", emptyCounts) = Undefined THEN NullResult
    ELSE Record(FirstOf(raw, "raffleId", "raffle_id", emptyCounts),
                FirstOf(raw, "qrId", "qr_id", emptyCounts),
                FirstOf(raw, "valueWei", "value_wei", emptyCounts))

\* C17 as stated: for an absolute URL the result is a record iff the query has a
\* raffleId or raffle_id parameter, and each field has the value of its camelCase
\* parameter when the query has that parameter, else of its snake_case parameter
\* when the query has it, else is absent.
C17_CamelFirstPresent ==
    (parseOut # Pending /\ parseIn \in AbsoluteUrls) => parseOut = ByQuery(parseIn, TRUE)

\* C17 amended: the same with "has the parameter" read as "has the parameter with
\* a non-empty value".
C17_CamelFirstNonEmpty ==
    (parseOut # Pending /\ parseIn \in AbsoluteUrls) => parseOut = ByQuery(parseIn, FALSE)

C17_Witness ==
    /\ parseIn = UrlText("url", Query("7", "8", Null, "q2", Null, Null))
    /\ parseOut = Record("7", "q2", Undefined)

\* C18: for a text that parses as JSON and has no raffleId, the result of
\* parseScannedData is the result of the URL step on that text.
C18_JsonWithoutRaffleId ==
    (parseOut # Pending /\ JsonParses(parseIn) /\ parseIn.raffleId = JUndefined)
        => parseOut = UrlStep(parseIn)

C18_Witness ==
    /\ parseIn = JsonText(JObject, JUndefined, JStr("q1"), JStr("1000"))
    /\ parseOut = NullResult

\* The messages a failed startCamera sets.
CameraMessages == {humanizeError(GumError(e)) : e \in GumErrors}

\* C19: a step of handleUpload leaves the state of the capture session unchanged,
\* and with it the message a failed startCamera is showing.
C19_UploadLeavesSession ==
    [][(upc' # upc) =>
          /\ UNCHANGED sessionVars
          /\ errMsg \in CameraMessages => errMsg' = errMsg]_vars

\* The class of an error by its name.
Classified(err, other) ==
    LET name == NameOf(err) IN
    IF name \in PermissionErrors THEN PermissionMsg
    ELSE IF name = "NotFoundError" THEN NoCameraMsg
    ELSE IF name = "NotReadableError" THEN InUseMsg
    ELSE other

\* C20 as stated: humanizeError never throws; it gives the permission-denied
\* message for NotAllowedError and SecurityError, the no-camera message for
\* NotFoundError, the camera-in-use message for NotReadableError and the generic
\* message "Unable to start the camera." for every other error, null included.
C20_GenericForOthers ==
    errOut # "pending" => errOut = Classified(errIn, DefaultMsg)

\* C20 amended: the same, but for every other error the result is the error's
\* own message when it has a non-empty one, and the generic message otherwise.
C20_OwnMessageForOthers ==
    errOut # "pending" =>
        /\ errOut # Threw
        /\ errOut = Classified(errIn,
               IF MessageOf(errIn) \in {Undefined, ""} THEN DefaultMsg ELSE MessageOf(errIn))

C20_Witness == errIn = NullErr /\ errOut = DefaultMsg

\* The positions of the devices of a list whose label names a back camera.
BackPositions(devs) == {i \in 1..Len(devs) : devs[i].label \in BackLabels}

\* C21: findBackCameraId returns the id of a device whose label names a back
\* camera when the list has one, else the id of the last device of a list of
\* more than one, else the id of the only device, else undefined.
C21_SelectDefault ==
    selOut # "pending" =>
        IF BackPositions(selIn) # {} THEN \E i \in BackPositions(selIn) : selOut = selIn[i].deviceId
        ELSE IF Len(selIn) > 1 THEN selOut = selIn[Len(selIn)].deviceId
        ELSE IF Len(selIn) = 1 THEN selOut = selIn[1].deviceId
        ELSE selOut = Undefined

C21_Witness ==
    /\ selIn = <<Device(1, "Front Camera"), Device(2, "REAR CAMERA"), Device(3, "Front TrueDepth Camera")>>
    /\ selOut = "d2"

\* C28: when the enumerated list has a device whose label names a back camera,
\* the device list() selects by default is one whose label names a back camera.
C28_AutoSelectsBack ==
    (autoOut # "pending" /\ BackPositions(selIn) # {})
        => \E i \in BackPositions(selIn) : autoOut = selIn[i].deviceId

\* The result of the last camera request of p.
LastRes(p) == reqs[p][Len(reqs[p])].res
UploadFinishes(u) == upc[u] = "decoding" /\ upc'[u] = "done"

C24_SingleOneLiveStream == Cardinality(live) <= 1

\* C25: the preflight stream of a startCamera is never the session's stream nor
\* bound to the video element; its tracks are stopped while the device list is
\* enumerated and while the pinned or generic request is in flight; the pinned
\* request asks for the device findBackCameraId chooses from the list enumerated
\* after the preflight succeeded.
C25_PreflightOnlyProbes ==
    \A p \in Starts :
        /\ PreflightStream(p) \in acquired =>
              /\ PreflightStream(p) \notin live
              /\ streamRef # PreflightStream(p)
              /\ videoSrc # PreflightStream(p)
        /\ pc[p] \in {"awaitEnumerate", "awaitPinned", "awaitGeneric"} =>
              PreflightStream(p) \in acquired
        /\ (Len(reqs[p]) = 4 /\ reqs[p][4].kind = "pinned") =>
              /\ reqs[p][3] = [kind |-> "preflight", res |-> "ok"]
              /\ pinnedId[p] = findBackCameraId(enumerated[p])
              /\ \E i \in 1..Len(enumerated[p]) : enumerated[p][i].deviceId = pinnedId[p]

C25_Witness ==
    \E p \in Starts :
        /\ pc[p] = "awaitPinned"
        /\ Len(enumerated[p]) = 2
        /\ pinnedId[p] = "d1"
        /\ PreflightStream(p) \in acquired \ live

\* Frames without decodable pixel data, and frames in which jsQR finds no code.
NoPixelData(f) == ~f.ready \/ f.w = 0 \/ f.h = 0
NoCodeFound(f) == ~NoPixelData(f) /\ f.code \in {"none", ""}

\* C26: a tick on a frame without decodable pixel data, or on a frame in which
\* the decode finds no code, decodes nothing and calls nothing back, has
\* replaced its frame callback by exactly one new one, and leaves started, the
\* stream held and its tracks as they were.
C26_TickWithoutCode ==
    [][\A c \in Starts : \A f \in Frames :
          (Tick(c, f) /\ (NoPixelData(f) \/ NoCodeFound(f)))
              => /\ decoded' = decoded
                 /\ onScannedCalls' = onScannedCalls
                 /\ c \in rafPending'
                 /\ rafPending' = rafPending
                 /\ UNCHANGED <<started, streamRef, live, videoSrc>>]_vars

\* A streaming session whose ticks have found no code so far.
C26_Witness ==
    /\ started /\ streamRef \in live /\ videoSrc = streamRef
    /\ rafPending = {rafRef}
    /\ \A c \in Starts : decoded[c] = <<>>

\* C27: a handleUpload that has ended has either called onScanned once with the
\* decoded text and set no error message, or has not called onScanned and has
\* set a non-null error message; not both, not neither.
C27_ExactlyOneOutcome ==
    \A u \in Uploads :
        upc[u] = "done" =>
            \/ (upScanned[u] = <<upDecode[u].text>> /\ upDecode[u].text # "" /\ upMsg[u] = Null)
            \/ (upScanned[u] = <<>> /\ upMsg[u] # Null)

\* C30: a step of handleUpload leaves streamRef, rafRef and started unchanged,
\* and with them the stream's tracks, its binding to the video element and the
\* pending frame callbacks.
C30_UploadKeepsSession ==
    [][(upc' # upc) => UNCHANGED <<streamRef, rafRef, started, live, videoSrc, rafPending>>]_vars

\* An image was decoded while the camera is streaming, and it still is.
C30_Witness ==
    /\ \E u \in Uploads : upc[u] = "done" /\ upScanned[u] = <<"QR1">>
    /\ started /\ streamRef # NoStream /\ streamRef \in live
    /\ rafRef # NoChain /\ rafRef \in rafPending

\* C29: a POST request is made only by an invocation whose transaction has been
\* mined and whose receipt has been obtained, each invocation makes at most one,
\* an invocation whose getSigner, enterRaffle or tx.wait() rejected makes none,
\* and the raffleId in the path and the qrId in the body (null when the record
\* has none) are those of the parsed record the transaction was sent for.
PostsOf(s) == {i \in DOMAIN posts : posts[i].sub = s}
SentOf(s) == {j \in DOMAIN sent : sent[j].sub = s}
C29_PostAfterReceipt ==
    /\ [](\A s \in Submits :
            /\ Cardinality(PostsOf(s)) <= 1
            /\ sub[s].failed \in {"signer", "send", "mine"} => PostsOf(s) = {}
            /\ \A i \in PostsOf(s) :
                  /\ s \in mined
                  /\ posts[i].txHash = ReceiptHash(s)
                  /\ posts[i].path = "/api/raffle/" \o sub[s].rec.raffleId \o "/enter"
                  /\ posts[i].qrId =
                         (IF sub[s].rec.qrId = Undefined THEN Null ELSE sub[s].rec.qrId)
                  /\ \E j \in SentOf(s) : sent[j].raffleId = sub[s].rec.raffleId)
    /\ [][posts' # posts =>
             /\ Len(posts') = Len(posts) + 1
             /\ SubSeq(posts', 1, Len(posts)) = posts
             /\ posts'[Len(posts')].sub \in mined]_vars

\* A request was posted for a record with a qrId and one for a record without,
\* and a code scanned while a submission was in flight has replaced the record.
C29_Witness ==
    /\ \E i \in DOMAIN posts : posts[i].qrId = Null
    /\ \E i \in DOMAIN posts :
          /\ posts[i].qrId = "q1"
          /\ sub[posts[i].sub].pc = "done"
          /\ parsed # sub[posts[i].sub].rec

\* C31: when the onScanned handler throws in a tick that decoded a code, no
\* exception leaves the tick, and after the tick (of a mounted component, the
\* only one that has a `started` state) started is false, the stream
\* that was held has its tracks stopped and is no longer held, and the tick has
\* requested no next frame callback.
C31_ThrowingHandlerTeardown ==
    /\ [](~tickEscaped)
    /\ [][\A c \in Starts :
             (mounted /\ onScannedThrows /\ Len(decoded'[c]) > Len(decoded[c]))
                 => /\ ~started'
                    /\ streamRef' = NoStream
                    /\ streamRef \notin live'
                    /\ c \notin rafPending'
                    /\ rafRef' = NoChain]_vars

\* A throwing handler was called from a tick of a streaming session, which is
\* now torn down.
C31_Witness ==
    /\ onScannedThrows
    /\ \E c \in Starts : onScannedCalls[c] = <<"QR1">>
    /\ stopReturned /\ ~started /\ streamRef = NoStream /\ live = {} /\ rafPending = {}

\* C32: while the component is mounted, isDecodingImage is true exactly when
\* some handleUpload invocation has started and has not finished, also when
\* invocations overlap.
C32_FlagWhileDecoding ==
    mounted => (isDecodingImage <=> \E u \in Uploads : upc[u] = "decoding")

\* C33: on the scan page, a txHash that is not null is the receipt hash of a
\* transaction that was sent for the raffleId of the parsed record the page
\* holds now.
C33_TxHashOfParsed ==
    txHash # Null =>
        /\ parsed.kind = "record"
        /\ \E j \in DOMAIN sent :
              /\ txHash = ReceiptHash(sent[j].sub)
              /\ sent[j].sub \in mined
              /\ sent[j].raffleId = parsed.raffleId

====
